---- MODULE Spec2Model ----
(***************************************************************************)
(* Model of the first-person WebGL demo: the Camera (camera.js), the gun   *)
(* (gun.js), the enemies (enemies.js) and the frame driver and input       *)
(* handlers (main.js).                                                     *)
(*                                                                         *)
(* Numbers.  The program computes in IEEE doubles; the model computes in   *)
(* integers, each quantity scaled so that every value the program forms    *)
(* from its constants is a whole number:                                   *)
(*   angles (yaw, pitch)           unit 0.01 degree    (89 deg  = 8900)    *)
(*   lengths (eye, velY, gravity)  unit 0.000001       (1.5     = 1500000) *)
(*   direction cosines, speed      unit 0.001          (0.15    = 150)     *)
(*   player health                 unit 0.01           (100     = 10000)   *)
(*   enemy distance to the camera  unit 0.005          (1.2     = 240)     *)
(* A direction cosine times the speed is a length.                         *)
(*                                                                         *)
(* Geometry.  A bullet's position is kept as the place and the angles it   *)
(* was fired from plus the number of velocity steps it has made.  Enemy    *)
(* coordinates are not kept: the distance test of checkBulletHits is an    *)
(* input of the call (the relation  near), and the horizontal camera       *)
(* position that updateEnemies steers towards is kept as read (pxz).       *)
(***************************************************************************)
EXTENDS Integers, Sequences, FiniteSets

VARIABLES camera, g_keys, g_bullets, g_shootCooldown, g_enemies,
          g_enemySpawnTimer, g_score, pxz, pc, frames, events,
          mainpc, glProgram, g_sheepProgram, g_texLoaded, pending, listening,
          g_playerHealth,
          batch, glBuffers, glCreated, glDeleted, glDraws,
          _walkActive, walkPlays, walkPauses, _moving,
          g_enemyDist

gunVars   == <<g_bullets, g_shootCooldown>>
enemyVars == <<g_enemies, g_enemySpawnTimer, g_score, pxz>>
ctlVars   == <<pc, frames, events>>

\* start-up (main.js): the call main is at, the two shader programs, the
\* textures uploaded, the frame callbacks requested and not yet run, and
\* whether the input handlers are registered
bootVars  == <<mainpc, glProgram, g_sheepProgram, g_texLoaded, pending,
               listening>>
\* one CubeBatch (cube.js) and what it has asked of the GL context: the
\* live buffers, the buffers created and deleted, and the drawArrays calls
\* of the latest draw()
batchVars == <<batch, glBuffers, glCreated, glDeleted, glDraws>>
\* the walk loop (sound.js), the play() and pause() calls made on it and
\* the argument tickWalkSound was last called with
soundVars == <<_walkActive, walkPlays, walkPauses, _moving>>

\* g_playerHealth and the walk sound are written by the frame and read by
\* nothing but the HUD and the loudspeaker; a specification that does not
\* follow one of these groups leaves it as it is.
\* g_enemyDist[i] is the horizontal distance of enemy i from the camera
\* (from e.x, e.z and camera.eye); the chase specification follows it, the
\* others take the distance tests as inputs and leave it as it is.
extVars   == <<bootVars, g_playerHealth, batchVars, soundVars,
               g_enemyDist>>

vars == <<camera, g_keys, gunVars, enemyVars, ctlVars, extVars>>

(***************************************************************************)
(* Bounds of the model.                                                    *)
(***************************************************************************)
\* frames the frame-driver specification runs
MaxFrames == 14
\* input events (key, mouse) of one run of the frame-driver specification
MaxEvents == 2
\* frames the bullet-lifetime specification runs
LifeFrames == 82
\* shoot events (f key or mouse button) of one run of that specification
LifeShots == 1
\* |yaw| the unit specifications let the camera turn to (0.01 degree)
MaxYaw == 300
\* Camera move* calls of one run of the camera specification
MaxMoves == 1
\* kills after which the enemy specification resolves no more hits
MaxKills == 2
\* bullets handed to one checkBulletHits call of the enemy specification
MaxBullets == 2
\* enemies (from the head of g_enemies) a bullet of that call may be near
MaxTargets == 2
\* updateEnemies calls in SpecHits (the second enemy spawns in the 180th)
MaxUpdates == 185
\* bullets and targets of one checkBulletHits call in SpecEnemies
CapBullets == 1
CapTargets == 1
\* updateEnemies calls and kills in the player-health specification
MaxHealthUpdates == 410
MaxHealthKills == 1
\* cube descriptors in the list of one CubeBatch.build call
MaxCubes == 3
\* build calls and draw calls on the batch in one run
MaxBuilds == 3
MaxBatchDraws == 3
MaxWalkCalls == 20
MaxSpawnCalls == 3800
MaxSpawnKills == 1
MaxChaseCalls == 1100

(***************************************************************************)
(* Program constants.                                                      *)
(***************************************************************************)
speed      == 150        \* Camera.speed     0.15
panAngle   == 300        \* Camera.panAngle  3 degrees
groundY    == 1500000    \* Camera.groundY   1.5
jumpForce  == 180000     \* Camera.jumpForce 0.18
gravity    == 12000      \* Camera.gravity   0.012
SENS       == 5          \* mouseRotate SENS 0.05 degree per pixel
PitchMax   == 8900       \* pitch clamp      89 degrees
eyeStart   == 16000000   \* Camera.eye[0], eye[2] = 16

BULLET_LIFE    == 80
SHOOT_COOLDOWN == 12

ENEMY_SPAWN_RATE == 180
ENEMY_MAX        == 20
ENEMY_HEALTH     == 2
KILL_SCORE       == 10

(***************************************************************************)
(* Math.cos and Math.sin, in thousandths, on the 3-degree grid the model's *)
(* inputs keep yaw on (panAngle is 3 degrees; mouse deltas are multiples   *)
(* of 60 pixels).                                                          *)
(***************************************************************************)
CosTab == <<1000, 999, 995, 988, 978, 966, 951, 934, 914, 891, 866, 839,
            809, 777, 743, 707, 669, 629, 588, 545, 500, 454, 407, 358,
            309, 259, 208, 156, 105, 52, 0>>

\* cos of k*3 degrees, k in 0..119
Cos3(k) ==
    IF k <= 30 THEN CosTab[k + 1]
    ELSE IF k <= 60 THEN 0 - CosTab[(60 - k) + 1]
    ELSE IF k <= 90 THEN 0 - CosTab[(k - 60) + 1]
    ELSE CosTab[(120 - k) + 1]

Grid3(a) == (a % 36000) \div 300

Cos(a) == Cos3(Grid3(a))
Sin(a) == Cos3((Grid3(a) + 90) % 120)

(***************************************************************************)
(* Camera (camera.js).  A camera is a record; each method is the camera    *)
(* after the call.                                                         *)
(***************************************************************************)
\* viewMatrix is kept as the (eye, yaw, pitch) it was last built from;
\* the constructor leaves it the identity (line 26), built from no pose.
IdentityView == <<"identity">>

NewCamera ==
    [ eye        |-> <<eyeStart, groundY, eyeStart>>,
      yaw        |-> 0,
      pitch      |-> 0,
      viewMatrix |-> IdentityView,
      velY       |-> 0,
      grounded   |-> TRUE ]

updateView(c) ==
    [c EXCEPT !.viewMatrix = <<c.eye, c.yaw, c.pitch>>]

_fwd(c)   == <<Cos(c.yaw), 0, Sin(c.yaw)>>
_right(c) == <<Sin(c.yaw), 0, 0 - Cos(c.yaw)>>

moveForward(c) ==
    LET f == _fwd(c)
    IN  [c EXCEPT !.eye = <<c.eye[1] + f[1] * speed, c.eye[2],
                            c.eye[3] + f[3] * speed>>]

moveBackwards(c) ==
    LET f == _fwd(c)
    IN  [c EXCEPT !.eye = <<c.eye[1] - f[1] * speed, c.eye[2],
                            c.eye[3] - f[3] * speed>>]

moveLeft(c) ==
    LET r == _right(c)
    IN  [c EXCEPT !.eye = <<c.eye[1] + r[1] * speed, c.eye[2],
                            c.eye[3] + r[3] * speed>>]

moveRight(c) ==
    LET r == _right(c)
    IN  [c EXCEPT !.eye = <<c.eye[1] - r[1] * speed, c.eye[2],
                            c.eye[3] - r[3] * speed>>]

jumpAnyway(c) ==
    [c EXCEPT !.velY = jumpForce, !.grounded = FALSE]

jump(c) ==
    IF c.grounded
    THEN [c EXCEPT !.velY = jumpForce, !.grounded = FALSE]
    ELSE c

applyGravityKeepVel(c) ==
    IF ~c.grounded
    THEN LET v == c.velY - gravity
             y == c.eye[2] + v
         IN  IF y <= groundY
             THEN [c EXCEPT !.eye = <<c.eye[1], groundY, c.eye[3]>>,
                            !.velY = v, !.grounded = TRUE]
             ELSE [c EXCEPT !.eye = <<c.eye[1], y, c.eye[3]>>, !.velY = v]
    ELSE c

applyGravityBelowOnly(c) ==
    IF ~c.grounded
    THEN LET v == c.velY - gravity
             y == c.eye[2] + v
         IN  IF y < groundY
             THEN [c EXCEPT !.eye = <<c.eye[1], groundY, c.eye[3]>>,
                            !.velY = 0, !.grounded = TRUE]
             ELSE [c EXCEPT !.eye = <<c.eye[1], y, c.eye[3]>>, !.velY = v]
    ELSE c

\* The landing test of line 123 meets equality: the 29th call of a jump
\* brings eye[1] to 1.5 exactly in exact arithmetic, and to
\* 1.4999999999999991 in the doubles the program computes in; both pass
\* the test  <= groundY.
applyGravity(c) ==
    IF ~c.grounded
    THEN LET v == c.velY - gravity
             y == c.eye[2] + v
         IN  IF y <= groundY
             THEN [c EXCEPT !.eye = <<c.eye[1], groundY, c.eye[3]>>,
                            !.velY = 0, !.grounded = TRUE]
             ELSE [c EXCEPT !.eye = <<c.eye[1], y, c.eye[3]>>, !.velY = v]
    ELSE c

panLeft(c)  == [c EXCEPT !.yaw = c.yaw - panAngle]
panRight(c) == [c EXCEPT !.yaw = c.yaw + panAngle]

clampPitchUpperOnly(p) ==
    IF p > PitchMax THEN PitchMax ELSE p

\* lines 142-143: the two clamps, in the code's order
clampPitch(p) ==
    LET p1 == IF p > PitchMax THEN PitchMax ELSE p
    IN  IF p1 < 0 - PitchMax THEN 0 - PitchMax ELSE p1

mouseRotateWithView(c, dx, dy) ==
    updateView([c EXCEPT !.yaw = c.yaw + dx * SENS,
                         !.pitch = clampPitch(c.pitch - dy * SENS)])

\* lines 138-145
mouseRotate(c, dx, dy) ==
    [c EXCEPT !.yaw = c.yaw + dx * SENS,
              !.pitch = clampPitch(c.pitch - dy * SENS)]

(***************************************************************************)
(* Gun (gun.js).  A gun is the pair (g_bullets, g_shootCooldown).          *)
(***************************************************************************)
Gun(bullets, cooldown) == [bullets |-> bullets, cooldown |-> cooldown]

\* lines 188-198: the bullet starts half a unit along the look direction
\* (one step of its velocity dx, dy, dz = direction * BULLET_SPEED) and so
\* is at  eye + (moved + 1) * velocity  after  moved  updateBullets calls.
NewBullet(c) ==
    [ eye |-> c.eye, yaw |-> c.yaw, pitch |-> c.pitch,
      moved |-> 0, life |-> BULLET_LIFE ]

shootNoCooldown(gun, c) ==
    Gun(Append(gun.bullets, NewBullet(c)), SHOOT_COOLDOWN)

shoot(gun, c) ==
    IF gun.cooldown > 0
    THEN gun
    ELSE Gun(Append(gun.bullets, NewBullet(c)), SHOOT_COOLDOWN)

aliveNonNegative(b) == b.life >= 0

\* line 207: the filter of updateBullets
alive(b) == b.life > 0

stepBulletNoLife(b) == [b EXCEPT !.moved = b.moved + 1]

\* line 205
stepBullet(b) == [b EXCEPT !.moved = b.moved + 1, !.life = b.life - 1]

updateBullets(gun) ==
    LET stepped == [i \in 1..Len(gun.bullets) |-> stepBullet(gun.bullets[i])]
    IN  Gun(SelectSeq(stepped, alive),
            IF gun.cooldown > 0 THEN gun.cooldown - 1 ELSE gun.cooldown)

initGun == Gun(<<>>, 0)

(***************************************************************************)
(* Enemies (enemies.js).  An enemy is its health and its dead flag; x, y,  *)
(* z, scale and bobTime are not kept.                                      *)
(***************************************************************************)
\* pxz before the first updateEnemies call: (px, pz) not read yet
Unread == <<"unread">>

NewEnemy == [health |-> ENEMY_HEALTH, dead |-> FALSE]

spawnEnemy(enemies) == Append(enemies, NewEnemy)

\* initEnemies: g_enemies and g_score after the call
initEnemies == [enemies |-> spawnEnemy(<<>>), score |-> 0]

notDead(e) == ~e.dead

keepAll(enemies) == enemies

\* line 293
filterDead(enemies) == SelectSeq(enemies, notDead)

spawnDueNoCap(enemies) == spawnEnemy(enemies)

\* line 278
spawnDue(enemies) ==
    IF Len(enemies) < ENEMY_MAX THEN spawnEnemy(enemies) ELSE enemies

updateEnemiesDeferred(enemies, timer, c) ==
    LET t   == timer + 1
        due == t >= ENEMY_SPAWN_RATE
        es  == IF due THEN spawnDue(enemies) ELSE enemies
    IN  [ enemies |-> filterDead(es),
          timer   |-> IF due /\ Len(enemies) < ENEMY_MAX THEN 0 ELSE t,
          pxz     |-> <<c.eye[1], c.eye[3]>> ]

\* updateEnemies(camera): g_enemies, g_enemySpawnTimer and the (px, pz) it
\* read.  The loop of lines 280-292 moves the live enemies towards (px, pz)
\* and bobs them; it changes neither health nor dead.
updateEnemies(enemies, timer, c) ==
    LET t   == timer + 1
        due == t >= ENEMY_SPAWN_RATE
        es  == IF due THEN spawnDue(enemies) ELSE enemies
    IN  [ enemies |-> filterDead(es),
          timer   |-> IF due THEN 0 ELSE t,
          pxz     |-> <<c.eye[1], c.eye[3]>> ]

Min(S) == CHOOSE x \in S : \A y \in S : x <= y

Max(S) == CHOOSE x \in S : \A y \in S : x >= y

lastHit(b, enemies, near) ==
    LET S == {e \in 1..Len(enemies) : ~enemies[e].dead /\ <<b, e>> \in near}
    IN  IF S = {} THEN 0 ELSE Max(S)

\* lines 363-367: the first enemy, in list order, that is not dead and
\* that bullet b is within range of; 0 when there is none
firstHit(b, enemies, near) ==
    LET S == {e \in 1..Len(enemies) : ~enemies[e].dead /\ <<b, e>> \in near}
    IN  IF S = {} THEN 0 ELSE Min(S)

damageKillAtOne(en) ==
    LET h == en.health - 1
    IN  [en EXCEPT !.health = h, !.dead = (h <= 1)]

\* lines 368-371
damage(en) ==
    LET h == en.health - 1
    IN  [en EXCEPT !.health = h, !.dead = (h <= 0)]

hitOneScoreEveryHit(b, bullets, near, st) ==
    LET e == firstHit(b, st.enemies, near)
    IN  IF e = 0
        THEN [st EXCEPT !.surviving = Append(st.surviving, bullets[b])]
        ELSE LET en == damage(st.enemies[e])
             IN  [st EXCEPT !.enemies = [st.enemies EXCEPT ![e] = en],
                            !.score = st.score + KILL_SCORE]

\* one turn of the outer loop, for bullet number b
hitOne(b, bullets, near, st) ==
    LET e == firstHit(b, st.enemies, near)
    IN  IF e = 0
        THEN [st EXCEPT !.surviving = Append(st.surviving, bullets[b])]
        ELSE LET en == damage(st.enemies[e])
             IN  [st EXCEPT !.enemies = [st.enemies EXCEPT ![e] = en],
                            !.score = IF en.dead THEN st.score + KILL_SCORE
                                      ELSE st.score]

RECURSIVE hitLoop(_, _, _, _)
hitLoop(b, bullets, near, st) ==
    IF b > Len(bullets) THEN st
    ELSE hitLoop(b + 1, bullets, near, hitOne(b, bullets, near, st))

\* checkBulletHits(bullets): the surviving bullets, g_enemies and g_score.
\* near  holds the pairs (bullet number, enemy number) for which the
\* distance test of line 367 is true.
checkBulletHits(bullets, enemies, score, near) ==
    hitLoop(1, bullets, near,
            [surviving |-> <<>>, enemies |-> enemies, score |-> score])

Pairs(nb, ne) == SUBSET ((1..nb) \X (1..ne))

(***************************************************************************)
(* Frame driver and input handlers (main.js).                              *)
(***************************************************************************)
\* _handleKeys, lines 298-339, on (camera, g_keys, gun).  The t and y keys
\* act on the block store, which is not part of this model; their flags
\* are cleared as the code clears them.
handleKeys(c, keys, gun) ==
    LET c1 == IF "w" \in keys THEN moveForward(c)    ELSE c
        c2 == IF "s" \in keys THEN moveBackwards(c1) ELSE c1
        c3 == IF "a" \in keys THEN moveLeft(c2)      ELSE c2
        c4 == IF "d" \in keys THEN moveRight(c3)     ELSE c3
        c5 == IF "q" \in keys THEN panLeft(c4)       ELSE c4
        c6 == IF "e" \in keys THEN panRight(c5)      ELSE c5
        c7 == IF " " \in keys THEN jump(c6)          ELSE c6
    IN  [ camera |-> c7,
          gun    |-> IF "f" \in keys THEN shoot(gun, c7) ELSE gun,
          keys   |-> keys \ {" ", "f", "t", "y"} ]

tickBodyHitsFirst ==
    << "handleKeys", "applyGravity", "checkBulletHits", "updateBullets",
       "updateEnemies", "renderScene", "requestAnimationFrame" >>

\* tick, lines 356-367: the calls it makes, in the order it makes them.
\* (tickWalkSound is followed on its own, in SpecSound; _updateHUD changes
\* no state of this model.)
tickBody ==
    << "handleKeys", "applyGravity", "updateBullets", "updateEnemies",
       "checkBulletHits", "renderScene", "requestAnimationFrame" >>

\* pc = 0: no frame callback is running (input events are delivered);
\* pc = i > 0: tick is running and tickBody[i] is the call it makes next.
Stmt == IF pc = 0 THEN "idle" ELSE tickBody[pc]

Advance == pc' = IF pc = Len(tickBody) THEN 0 ELSE pc + 1

\* the browser invokes tick (lines 343-354: the FPS counters)
TickBegin(maxF) ==
    /\ pc = 0
    /\ frames < maxF
    /\ pc' = 1
    /\ frames' = frames + 1
    /\ UNCHANGED <<camera, g_keys, gunVars, enemyVars, events, extVars>>

TickHandleKeys ==
    /\ Stmt = "handleKeys"
    /\ LET r == handleKeys(camera, g_keys, Gun(g_bullets, g_shootCooldown))
       IN  /\ camera' = r.camera
           /\ g_keys' = r.keys
           /\ g_bullets' = r.gun.bullets
           /\ g_shootCooldown' = r.gun.cooldown
    /\ Advance
    /\ UNCHANGED <<enemyVars, frames, events>>

TickApplyGravity ==
    /\ Stmt = "applyGravity"
    /\ camera' = applyGravity(camera)
    /\ Advance
    /\ UNCHANGED <<g_keys, gunVars, enemyVars, frames, events>>

TickUpdateBullets ==
    /\ Stmt = "updateBullets"
    /\ LET g == updateBullets(Gun(g_bullets, g_shootCooldown))
       IN  /\ g_bullets' = g.bullets
           /\ g_shootCooldown' = g.cooldown
    /\ Advance
    /\ UNCHANGED <<camera, g_keys, enemyVars, frames, events>>

TickUpdateEnemies ==
    /\ Stmt = "updateEnemies"
    /\ LET r == updateEnemies(g_enemies, g_enemySpawnTimer, camera)
       IN  /\ g_enemies' = r.enemies
           /\ g_enemySpawnTimer' = r.timer
           /\ pxz' = r.pxz
    /\ Advance
    /\ UNCHANGED <<camera, g_keys, gunVars, g_score, frames, events>>

\* line 363: setBullets(checkBulletHits(getBullets()))
TickCheckBulletHits ==
    /\ Stmt = "checkBulletHits"
    /\ \E near \in Pairs(Len(g_bullets), Len(g_enemies)) :
         LET r == checkBulletHits(g_bullets, g_enemies, g_score, near)
         IN  /\ g_bullets' = r.surviving
             /\ g_enemies' = r.enemies
             /\ g_score' = r.score
    /\ Advance
    /\ UNCHANGED <<camera, g_keys, g_shootCooldown, g_enemySpawnTimer, pxz,
                   frames, events>>

\* renderScene, line 398: camera.updateView(); the draw calls change no
\* state of this model
TickRenderScene ==
    /\ Stmt = "renderScene"
    /\ camera' = updateView(camera)
    /\ Advance
    /\ UNCHANGED <<g_keys, gunVars, enemyVars, frames, events>>

TickRequestFrame ==
    /\ Stmt = "requestAnimationFrame"
    /\ Advance
    /\ UNCHANGED <<camera, g_keys, gunVars, enemyVars, frames, events>>

TickStep ==
    \/ TickHandleKeys /\ UNCHANGED extVars
    \/ TickApplyGravity /\ UNCHANGED extVars
    \/ TickUpdateBullets /\ UNCHANGED extVars
    \/ TickUpdateEnemies /\ UNCHANGED extVars
    \/ TickCheckBulletHits /\ UNCHANGED extVars
    \/ TickRenderScene /\ UNCHANGED extVars
    \/ TickRequestFrame /\ UNCHANGED extVars

\* An input event is delivered only between two frame callbacks.
Event(maxE) ==
    /\ pc = 0
    /\ events < maxE
    /\ events' = events + 1
    /\ UNCHANGED <<pc, frames, extVars>>

\* lines 258-261
KeyDown(k, maxE) ==
    /\ Event(maxE)
    /\ g_keys' = g_keys \cup {k}
    /\ UNCHANGED <<camera, gunVars, enemyVars>>

\* lines 262-264
KeyUp(k, maxE) ==
    /\ Event(maxE)
    /\ g_keys' = g_keys \ {k}
    /\ UNCHANGED <<camera, gunVars, enemyVars>>

\* lines 281-286; locked: document.pointerLockElement === canvas
mouseDown(gun, c, button, locked) ==
    IF button = 0 /\ locked THEN shoot(gun, c) ELSE gun

MouseDown(maxE) ==
    /\ Event(maxE)
    /\ \E button \in {0, 2}, locked \in BOOLEAN :
         LET g == mouseDown(Gun(g_bullets, g_shootCooldown), camera,
                            button, locked)
         IN  /\ g_bullets' = g.bullets
             /\ g_shootCooldown' = g.cooldown
    /\ UNCHANGED <<camera, g_keys, enemyVars>>

mouseMoveWithView(c, dx, dy, locked) ==
    IF locked THEN updateView(mouseRotate(c, dx, dy)) ELSE c

\* lines 291-294
mouseMove(c, dx, dy, locked) ==
    IF locked THEN mouseRotate(c, dx, dy) ELSE c

MouseMove(deltas, maxE) ==
    /\ Event(maxE)
    /\ \E d \in deltas, locked \in BOOLEAN :
         camera' = mouseMove(camera, d[1], d[2], locked)
    /\ UNCHANGED <<g_keys, gunVars, enemyVars>>

(***************************************************************************)
(* Start-up (main.js, main): the calls of main that this model follows,    *)
(* in the order main makes them.  The three _uploadTex calls are those of  *)
(* _loadTextures (lines 234-236).                                          *)
(***************************************************************************)
NUM_TEXTURES == 3
FullHealth   == 10000      \* g_playerHealth  100
ENEMY_DAMAGE == 15         \* line 290        0.15
\* enemies.js lines 235, 239 and 285, in units of 0.005
ENEMY_SPEED == 4           \* 0.02
ENEMY_DAMAGE_DIST == 240   \* 1.2
StandStill == 2            \* 0.01: an enemy no farther than this stays put
\* spawnEnemy puts an enemy on an edge of the field (lines 263-268); from
\* the place the camera starts at, (16, 16), the edges are 14 to 15 away
\* at the nearest: 14.0 and 14.015
EdgeDist == 2800
EdgeDistOdd == 2803

mainBody ==
    << "getWebGLContext", "initShaders", "initSheepShader", "initEnemies",
       "initGun", "_uploadTex", "_uploadTex", "_uploadTex", "_setupInput" >>

\* mainpc = i in 1..Len(mainBody): main is about to make call mainBody[i];
\* MainDone: main has returned from its last line; MainAborted: main has
\* returned early (lines 97, 100-103)
MainDone    == Len(mainBody) + 1
MainAborted == 0

\* CubeBatch.constructor, lines 95-99 of cube.js (vbo 0: null)
NewBatch == [vbo |-> 0, vertCount |-> 0, texNum |-> 0]

(***************************************************************************)
(* The state main() leaves (lines 115, 144, 145): a new Camera,            *)
(* initEnemies(), initGun(), no key held, no frame callback running.       *)
(***************************************************************************)
Init ==
    /\ camera = NewCamera
    /\ g_keys = {}
    /\ g_bullets = initGun.bullets
    /\ g_shootCooldown = initGun.cooldown
    /\ g_enemies = initEnemies.enemies
    /\ g_score = initEnemies.score
    /\ g_enemySpawnTimer = 0
    /\ pxz = Unread
    /\ pc = 0
    /\ frames = 0
    /\ events = 0
    /\ mainpc = MainDone
    /\ glProgram = "program"
    /\ g_sheepProgram = "program"
    /\ g_texLoaded = NUM_TEXTURES
    /\ pending = 1
    /\ listening = TRUE
    /\ g_playerHealth = FullHealth
    /\ batch = NewBatch
    /\ glBuffers = {}
    /\ glCreated = 0
    /\ glDeleted = 0
    /\ glDraws = <<>>
    /\ _walkActive = FALSE
    /\ walkPlays = 0
    /\ walkPauses = 0
    /\ _moving = FALSE
    /\ g_enemyDist = <<EdgeDist>>

\* the keys and mouse movements (pixels) the frame-driver specification
\* draws its input events from
Keys       == {"w", " ", "f"}
MouseMoves == {<<60, 40>>, <<0, -2000>>}

Next ==
    \/ TickBegin(MaxFrames)
    \/ TickStep
    \/ \E k \in Keys : KeyDown(k, MaxEvents)
    \/ \E k \in Keys : KeyUp(k, MaxEvents)
    \/ MouseDown(MaxEvents)
    \/ MouseMove(MouseMoves, MaxEvents)

\* The frame driver with its input handlers.
Spec == Init /\ [][Next]_vars

(***************************************************************************)
(* Claims checked under Spec.                                              *)
(***************************************************************************)
NoDead(enemies) == \A i \in 1..Len(enemies) : ~enemies[i].dead

\* a step of an input event handler: no frame callback runs before or after
HandlerStep == pc = 0 /\ pc' = 0

\* C1, as claimed: at the end of every tick (no frame callback running)
\* g_enemies contains no enemy whose dead flag is set.
C1_NoDeadAtTickEnd == pc = 0 => NoDead(g_enemies)

\* C1, amended: the filter that ends every updateEnemies call leaves no
\* dead enemy in g_enemies, so an enemy that checkBulletHits marks dead
\* stays in the list only until the updateEnemies call of the next tick
\* (a state that holds a dead enemy is never one in which checkBulletHits
\* is the next call); and the step that sets a dead flag adds the kill to
\* g_score.
C1_DeadGoneByNextUpdate ==
    [][ /\ Stmt = "updateEnemies" => NoDead(g_enemies')
        /\ ~NoDead(g_enemies') => Stmt' # "checkBulletHits"
        /\ (NoDead(g_enemies) /\ ~NoDead(g_enemies'))
              => /\ Stmt = "checkBulletHits"
                 /\ g_score' >= g_score + KILL_SCORE ]_vars

\* C1 witness: an enemy was killed (its kill is in the score) and the
\* updateEnemies call of the following tick has just removed it.
C1_Witness ==
    /\ Stmt = "checkBulletHits"
    /\ g_score = KILL_SCORE
    /\ g_enemies = <<>>

\* C2, as claimed: no input event handler changes the bullet list, the
\* shoot cooldown, the enemy list or any camera field.
C2_HandlersChangeNothingShared ==
    [][ HandlerStep
          => UNCHANGED <<g_bullets, g_shootCooldown, g_enemies, camera>> ]_vars

\* C2, amended: an input event handler never changes g_enemies, g_score,
\* the spawn timer, or the camera's eye, velY, grounded and viewMatrix;
\* keydown and keyup change only g_keys, mousemove changes only camera.yaw
\* and camera.pitch, and mousedown changes the gun only as one shoot()
\* call does (with the cooldown at 0 it appends one bullet and sets the
\* cooldown to SHOOT_COOLDOWN).
C2_HandlersChangeOnlyTheirOwn ==
    [][ HandlerStep
          => /\ UNCHANGED <<g_enemies, g_score, g_enemySpawnTimer, pxz>>
             /\ camera'.eye = camera.eye
             /\ camera'.velY = camera.velY
             /\ camera'.grounded = camera.grounded
             /\ camera'.viewMatrix = camera.viewMatrix
             /\ \/ UNCHANGED <<g_bullets, g_shootCooldown>>
                \/ /\ g_shootCooldown = 0
                   /\ g_shootCooldown' = SHOOT_COOLDOWN
                   /\ g_bullets' = Append(g_bullets, NewBullet(camera))
             /\ g_keys' # g_keys => UNCHANGED <<camera, gunVars>>
             /\ camera' # camera => UNCHANGED <<g_keys, gunVars>> ]_vars

\* C2 witness: before the first frame, a mousedown has fired a bullet and
\* a mousemove has turned the camera.
C2_Witness ==
    /\ frames = 0
    /\ pc = 0
    /\ Len(g_bullets) = 1
    /\ camera.pitch # 0

\* C4: shoot() with the cooldown above 0 changes nothing; with the
\* cooldown at 0 it appends exactly one bullet and sets the cooldown to
\* SHOOT_COOLDOWN; the cooldown is still above 0 until updateBullets has
\* run SHOOT_COOLDOWN times since the shot, so any two bullets were fired
\* at least SHOOT_COOLDOWN updateBullets calls apart.
C4_ShootCooldown ==
    LET g == Gun(g_bullets, g_shootCooldown)
        r == shoot(g, camera)
        n == Len(g_bullets)
    IN  /\ g_shootCooldown \in 0..SHOOT_COOLDOWN
        /\ g_shootCooldown > 0 => r = g
        /\ g_shootCooldown = 0
             => /\ Len(r.bullets) = n + 1
                /\ SubSeq(r.bullets, 1, n) = g_bullets
                /\ r.bullets[n + 1].life = BULLET_LIFE
                /\ r.cooldown = SHOOT_COOLDOWN
        /\ \A i \in 1..n : g_bullets[i].moved + g_shootCooldown >= SHOOT_COOLDOWN
        /\ \A i, j \in 1..n :
             i < j => g_bullets[i].moved - g_bullets[j].moved >= SHOOT_COOLDOWN

\* C4 witness: two bullets in flight, fired exactly SHOOT_COOLDOWN
\* updateBullets calls apart.
C4_Witness ==
    /\ Len(g_bullets) = 2
    /\ g_bullets[1].moved - g_bullets[2].moved = SHOOT_COOLDOWN

\* C10: tick makes its calls in the order handleKeys, applyGravity,
\* updateBullets, updateEnemies, checkBulletHits, renderScene (updateView),
\* requestAnimationFrame.  So: when gravity is applied the jump and fire
\* keys of this frame have been handled, and outside that one point an
\* airborne camera has had gravity applied since its jump; when hits are
\* evaluated every bullet has moved and the enemies have been steered at
\* the camera position this frame's input produced; and when the next
\* frame is requested the view matrix is the one of the final camera state.
C10_TickOrder ==
    LET order == << "handleKeys", "applyGravity", "updateBullets",
                    "updateEnemies", "checkBulletHits", "renderScene",
                    "requestAnimationFrame" >>
        eyeXZ == <<camera.eye[1], camera.eye[3]>>
    IN  /\ pc \in 0..Len(order)
        /\ pc > 0 => Stmt = order[pc]
        /\ Stmt = "applyGravity" => g_keys \cap {" ", "f"} = {}
        /\ (Stmt \notin {"handleKeys", "applyGravity"} /\ ~camera.grounded)
             => /\ camera.velY <= jumpForce - gravity
                /\ camera.eye[2] > groundY
        /\ Stmt = "checkBulletHits"
             => /\ \A i \in 1..Len(g_bullets) : g_bullets[i].moved >= 1
                /\ pxz = eyeXZ
        /\ Stmt = "requestAnimationFrame"
             => /\ camera.viewMatrix = <<camera.eye, camera.yaw, camera.pitch>>
                /\ pxz = eyeXZ

\* C10 witness: hits are about to be evaluated in a frame whose key
\* handling moved the camera and that has a bullet in flight.
C10_Witness ==
    /\ Stmt = "checkBulletHits"
    /\ Len(g_bullets) >= 1
    /\ camera.eye[1] # eyeStart
    /\ pxz = <<camera.eye[1], camera.eye[3]>>

(***************************************************************************)
(* The frame driver over a bullet's whole life: the only input events are  *)
(* the two that fire, the f key (handled inside the next tick) and the     *)
(* mouse button (handled between two ticks).                               *)
(***************************************************************************)
NextLife ==
    \/ TickBegin(LifeFrames)
    \/ TickStep
    \/ KeyDown("f", LifeShots)
    \/ MouseDown(LifeShots)

SpecLife == Init /\ [][NextLife]_vars

\* C5: every updateBullets call lowers the life of every bullet by exactly
\* 1 (and moves it one step), keeps the bullet while its life stays above
\* 0 and removes it in the call that brings its life to 0, the
\* BULLET_LIFE-th call since it was fired; no bullet leaves g_bullets in
\* any other step except a checkBulletHits call that resolves a hit.  This
\* holds for a bullet fired by the f key inside a tick and for one fired
\* by a mousedown between two ticks.
C5_BulletLife ==
    [][ /\ \A i \in 1..Len(g_bullets') :
             /\ g_bullets'[i].life \in 1..BULLET_LIFE
             /\ g_bullets'[i].life + g_bullets'[i].moved = BULLET_LIFE
        /\ Stmt = "updateBullets"
             => LET kept == SelectSeq(g_bullets, LAMBDA b : b.life > 1)
                IN  /\ Len(g_bullets') = Len(kept)
                    /\ \A i \in 1..Len(kept) :
                         /\ g_bullets'[i].life = kept[i].life - 1
                         /\ g_bullets'[i].moved = kept[i].moved + 1
        /\ Len(g_bullets') < Len(g_bullets)
             => \/ Stmt = "updateBullets"
                \/ /\ Stmt = "checkBulletHits"
                   /\ g_enemies' # g_enemies ]_vars

\* C5 witness: a bullet fired before or in frame 1 hit nothing and has
\* just been removed by the updateBullets call of frame BULLET_LIFE.
C5_Witness ==
    /\ Stmt = "updateEnemies"
    /\ frames = BULLET_LIFE
    /\ events = 1
    /\ g_bullets = <<>>
    /\ g_enemies = <<NewEnemy>>

(***************************************************************************)
(* The Camera alone: its methods called one at a time in any order, on the *)
(* camera main() constructs.  mouseRotate takes its deltas (pixels) from   *)
(* MouseDX and MouseDY; turning stops at MaxYaw and walking after MaxMoves *)
(* move* calls (counted in events).                                        *)
(***************************************************************************)
MouseDX == {-60, 0, 60}
MouseDY == {-2000, -500, 0, 500, 2000}

Abs(n) == IF n < 0 THEN 0 - n ELSE n

CamTo(c) ==
    /\ Abs(c.yaw) <= MaxYaw
    /\ camera' = c
    /\ UNCHANGED <<g_keys, gunVars, enemyVars, pc, frames, extVars>>

CamMouseRotate ==
    /\ \E dx \in MouseDX, dy \in MouseDY : CamTo(mouseRotate(camera, dx, dy))
    /\ UNCHANGED events

CamPanLeft  == CamTo(panLeft(camera)) /\ UNCHANGED events
CamPanRight == CamTo(panRight(camera)) /\ UNCHANGED events

CamMove ==
    /\ events < MaxMoves
    /\ events' = events + 1
    /\ \/ CamTo(moveForward(camera))
       \/ CamTo(moveBackwards(camera))
       \/ CamTo(moveLeft(camera))
       \/ CamTo(moveRight(camera))

CamJump == CamTo(jump(camera)) /\ UNCHANGED events

CamApplyGravity == CamTo(applyGravity(camera)) /\ UNCHANGED events

NextCamera ==
    \/ CamMouseRotate
    \/ CamPanLeft
    \/ CamPanRight
    \/ CamMove
    \/ CamJump
    \/ CamApplyGravity

SpecCamera == Init /\ [][NextCamera]_vars

\* applyGravity is called once in every frame (tick line 360) and the
\* frame loop reschedules itself unconditionally (line 367).
SpecCameraFair == SpecCamera /\ WF_vars(CamApplyGravity)

\* C6: in every state the Camera methods reach, camera.pitch is within
\* [-89, 89] degrees: mouseRotate clamps in the call that changes it.
C6_PitchClamped ==
    /\ camera.pitch >= 0 - PitchMax
    /\ camera.pitch <= PitchMax

\* C6 witness: the camera has been turned and its pitch sits at the lower
\* clamp.
C6_Witness ==
    /\ camera.pitch = 0 - PitchMax
    /\ camera.yaw # 0

\* height above groundY after k applyGravity calls of a jump, in closed
\* form: k * jumpForce - gravity * (1 + 2 + ... + k)
JumpHeight(k) == k * jumpForce - (gravity * k * (k + 1)) \div 2

\* the first call at which that height is no longer above the ground
LandCalls ==
    CHOOSE k \in 1..100 :
        /\ JumpHeight(k) <= 0
        /\ \A j \in 1..(k - 1) : JumpHeight(j) > 0

\* C7: an airborne camera comes back to the ground (eye[1] = groundY,
\* velY = 0, grounded) when applyGravity keeps being called, and every
\* jump lands in the same call: the LandCalls-th applyGravity call after
\* jump(), with the camera on the closed-form parabola until then.
C7_JumpLands ==
    /\ (~camera.grounded)
          ~> (camera.grounded /\ camera.eye[2] = groundY /\ camera.velY = 0)
    /\ [][ /\ (~camera'.grounded)
              => \E k \in 0..(LandCalls - 1) :
                   /\ camera'.velY = jumpForce - k * gravity
                   /\ camera'.eye[2] = groundY + JumpHeight(k)
           /\ (~camera.grounded /\ camera'.grounded)
              => /\ camera.velY = jumpForce - (LandCalls - 1) * gravity
                 /\ camera'.eye[2] = groundY
                 /\ camera'.velY = 0 ]_vars

\* C7 witness: the camera is on the ground again after a jump, having
\* walked in between (events counts the move* calls).
C7_Witness ==
    /\ camera.grounded
    /\ camera.eye[2] = groundY
    /\ camera.velY = 0
    /\ events = 1
    /\ camera.pitch # 0

\* C8: jump() on an airborne camera changes nothing; on a grounded camera
\* it sets velY to jumpForce, clears grounded and leaves eye alone.  So
\* while the camera stays airborne velY only falls: no second jump.
C8_JumpOnlyGrounded ==
    /\ [](~camera.grounded => jump(camera) = camera)
    /\ [](camera.grounded
            => /\ jump(camera).velY = jumpForce
               /\ ~jump(camera).grounded
               /\ jump(camera).eye = camera.eye)
    /\ [][ (~camera.grounded /\ ~camera'.grounded)
              => camera'.velY <= camera.velY ]_vars

\* C8 witness: the camera is airborne and falling.
C8_Witness ==
    /\ ~camera.grounded
    /\ camera.velY < 0

(***************************************************************************)
(* The enemy module alone: initEnemies, updateEnemies(camera) and          *)
(* checkBulletHits(bullets) called one at a time in any order.             *)
(* checkBulletHits is given up to maxB bullets, each within range of any   *)
(* of the first maxT enemies of the list (its return value, the surviving  *)
(* bullets, is not stored here); calls stop once MaxKills kills are on the *)
(* score.                                                                  *)
(***************************************************************************)
EnInitEnemies ==
    /\ g_enemies' = initEnemies.enemies
    /\ g_score' = initEnemies.score
    /\ UNCHANGED <<camera, g_keys, gunVars, g_enemySpawnTimer, pxz, ctlVars,
                   extVars>>

EnUpdateEnemies ==
    /\ LET r == updateEnemies(g_enemies, g_enemySpawnTimer, camera)
       IN  /\ g_enemies' = r.enemies
           /\ g_enemySpawnTimer' = r.timer
           /\ pxz' = r.pxz
    /\ UNCHANGED <<camera, g_keys, gunVars, g_score, extVars>>

Targets(maxT) == IF Len(g_enemies) < maxT THEN Len(g_enemies) ELSE maxT

EnCheckBulletHits(maxB, maxT) ==
    /\ g_score < MaxKills * KILL_SCORE
    /\ \E n \in 0..maxB :
         \E near \in Pairs(n, Targets(maxT)) :
           LET r == checkBulletHits([i \in 1..n |-> NewBullet(camera)],
                                    g_enemies, g_score, near)
           IN  /\ g_enemies' = r.enemies
               /\ g_score' = r.score
    /\ UNCHANGED <<camera, g_keys, gunVars, g_enemySpawnTimer, pxz, ctlVars,
                   extVars>>

\* The first MaxUpdates updateEnemies calls (frames counts them), with
\* MaxBullets bullets against MaxTargets enemies.
NextHits ==
    \/ EnInitEnemies
    \/ EnUpdateEnemies /\ frames < MaxUpdates /\ frames' = frames + 1
                       /\ UNCHANGED <<pc, events>>
    \/ EnCheckBulletHits(MaxBullets, MaxTargets)

SpecHits == Init /\ [][NextHits]_vars

\* Any number of updateEnemies calls, with CapBullets bullets against
\* CapTargets enemies.
NextEnemies ==
    \/ EnInitEnemies
    \/ EnUpdateEnemies /\ UNCHANGED ctlVars
    \/ EnCheckBulletHits(CapBullets, CapTargets)

SpecEnemies == Init /\ [][NextEnemies]_vars

RECURSIVE SumTo(_, _)
SumTo(f, n) == IF n = 0 THEN 0 ELSE f[n] + SumTo(f, n - 1)

\* C3: every enemy in the list has health 0..2 and is dead exactly when
\* its health is 0, so an enemy spawned with health 2 is dead after its
\* second hit and not after its first.  Whatever bullets checkBulletHits
\* is given and whichever of the foremost enemies they are in range of
\* (the first live one in list order takes the hit): each bullet it
\* consumes takes one health point from one live enemy, a dead enemy is
\* left as it is, and g_score grows by 10 for each enemy that dies in the
\* call and by nothing else.
C3_TwoHitsOneScore ==
    /\ \A i \in 1..Len(g_enemies) :
         /\ g_enemies[i].health \in 0..ENEMY_HEALTH
         /\ g_enemies[i].dead <=> (g_enemies[i].health = 0)
    /\ \A n \in 0..MaxBullets :
         \A near \in Pairs(n, Targets(MaxTargets)) :
           LET bs   == [i \in 1..n |-> NewBullet(camera)]
               r    == checkBulletHits(bs, g_enemies, g_score, near)
               es   == r.enemies
               lost == [i \in 1..Len(es) |->
                          g_enemies[i].health - es[i].health]
               died == {i \in 1..Len(es) : es[i].dead /\ ~g_enemies[i].dead}
           IN  /\ Len(es) = Len(g_enemies)
               /\ \A i \in 1..Len(es) :
                    /\ lost[i] >= 0
                    /\ es[i].dead <=> (es[i].health = 0)
                    /\ g_enemies[i].dead => es[i] = g_enemies[i]
               /\ SumTo(lost, Len(es)) = n - Len(r.surviving)
               /\ r.score = g_score + KILL_SCORE * Cardinality(died)

\* C3 witness: the first enemy has been killed and is still in the list,
\* its one kill is on the score, the second enemy has taken one hit and
\* lives.
C3_Witness ==
    /\ Len(g_enemies) >= 2
    /\ g_enemies[1].dead
    /\ g_enemies[2].health = 1
    /\ ~g_enemies[2].dead
    /\ g_score = KILL_SCORE

\* C9: g_enemies never holds more than ENEMY_MAX entries.
C9_EnemyCap == Len(g_enemies) <= ENEMY_MAX

\* C9 witness: the list is full, a dead enemy among its entries, and the
\* next updateEnemies call is the one whose timer test comes true.
C9_Witness ==
    /\ Len(g_enemies) = ENEMY_MAX
    /\ g_enemies[1].dead
    /\ g_enemySpawnTimer = ENEMY_SPAWN_RATE - 1

(***************************************************************************)
(* Further properties of the frame driver (Spec).                          *)
(***************************************************************************)
Mutated(c) ==
    { moveForward(c), moveBackwards(c), moveLeft(c), moveRight(c),
      panLeft(c), panRight(c), jump(c), applyGravity(c) }
    \cup { mouseRotate(c, d[1], d[2]) : d \in MouseMoves }

\* C11: camera.viewMatrix changes only in the renderScene call of a tick,
\* which is camera.updateView() and is made once in the body of tick,
\* after the key handling, the physics and the enemy update; no input
\* handler changes it, and no camera mutator applied to a reachable camera
\* does.
C11_ViewOnlyInRender ==
    /\ [][ /\ camera'.viewMatrix # camera.viewMatrix => Stmt = "renderScene"
           /\ Stmt = "renderScene" => camera' = updateView(camera)
           /\ HandlerStep => camera'.viewMatrix = camera.viewMatrix ]_vars
    /\ [](Cardinality({i \in 1..Len(tickBody) : tickBody[i] = "renderScene"})
            = 1)
    /\ [](Stmt = "renderScene" => pc > 4)
    /\ [](\A m \in Mutated(camera) : m.viewMatrix = camera.viewMatrix)

\* C11 witness: between two frames, the view matrix of the last frame is
\* no longer the one of the camera's pose (a mouse movement has turned the
\* camera since).
C11_Witness ==
    /\ pc = 0
    /\ camera.viewMatrix # IdentityView
    /\ camera.viewMatrix # <<camera.eye, camera.yaw, camera.pitch>>

(***************************************************************************)
(* Further properties of checkBulletHits (SpecHits).                       *)
(***************************************************************************)
\* n bullets that differ from one another (by their age)
Aged(n) == [i \in 1..n |-> [NewBullet(camera) EXCEPT !.moved = i,
                                                      !.life = BULLET_LIFE - i]]

\* the pairs of  near  that concern bullet b, renumbered for a call that
\* is given bullet b alone
Alone(near, b) == {<<1, p[2]>> : p \in {q \in near : q[1] = b}}

\* C12: whatever bullets checkBulletHits is given, in any reachable state
\* of the enemy list.  A single bullet that is in range of a live enemy
\* takes 1 health from the first such enemy in list order, changes no
\* other enemy and is not returned; one in range of no live enemy changes
\* nothing and is returned.  A call with several bullets does what calls
\* with the single bullets, made one after the other in list order, do;
\* so the bullets returned are, in their original order, those that met
\* no live enemy, and the health taken is 1 for each bullet not returned.
C12_FirstLiveEnemy ==
    \A n \in 0..MaxBullets :
      \A near \in Pairs(n, Targets(MaxTargets)) :
        LET bs == Aged(n)
            r  == checkBulletHits(bs, g_enemies, g_score, near)
            one(b, es, sc) ==
                checkBulletHits(<<bs[b]>>, es, sc, Alone(near, b))
            r1 == IF n >= 1 THEN one(1, g_enemies, g_score)
                  ELSE [surviving |-> <<>>, enemies |-> g_enemies,
                        score |-> g_score]
            r2 == IF n >= 2 THEN one(2, r1.enemies, r1.score) ELSE r1
            live(b, es) == {e \in 1..Len(es) :
                              ~es[e].dead /\ <<b, e>> \in near}
            single(b, es, res) ==
                IF live(b, es) = {}
                THEN res.enemies = es /\ res.surviving = <<bs[b]>>
                ELSE LET f == CHOOSE e \in live(b, es) :
                                \A x \in live(b, es) : e <= x
                     IN  /\ res.surviving = <<>>
                         /\ Len(res.enemies) = Len(es)
                         /\ res.enemies[f].health = es[f].health - 1
                         /\ \A e \in 1..Len(es) :
                              e # f => res.enemies[e] = es[e]
        IN  /\ n >= 1 => single(1, g_enemies, r1)
            /\ n >= 2 => single(2, r1.enemies, r2)
            /\ n <= 2 =>
                 /\ r.enemies = r2.enemies
                 /\ r.score = r2.score
                 /\ r.surviving =
                      (IF n >= 1 THEN r1.surviving ELSE <<>>)
                      \o (IF n >= 2 THEN r2.surviving ELSE <<>>)
            /\ \A k \in 1..Len(r.surviving) :
                 /\ \E b \in 1..n : r.surviving[k] = bs[b]
                 /\ k > 1 => r.surviving[k - 1].moved < r.surviving[k].moved
                 /\ \A e \in 1..Len(r.enemies) :
                      <<r.surviving[k].moved, e>> \in near => r.enemies[e].dead

\* C12 witness: with two enemies in the list, a bullet in range of the
\* second only has hit it; the first is untouched.
C12_Witness ==
    /\ Len(g_enemies) = 2
    /\ g_enemies[1].health = ENEMY_HEALTH
    /\ g_enemies[2].health = 1

(***************************************************************************)
(* Player health (enemies.js, updateEnemies lines 280-292).  The distance  *)
(* test of line 289 is an input of the call: close is the set of enemy     *)
(* numbers, in the list the loop runs over, for which dist is below        *)
(* ENEMY_DAMAGE_DIST.                                                      *)
(***************************************************************************)
hurtNoFloor(h) == h - ENEMY_DAMAGE

\* lines 290-291
hurt(h) == IF h - ENEMY_DAMAGE < 0 THEN 0 ELSE h - ENEMY_DAMAGE

\* the list the loop of line 280 runs over: after the spawn of line 278,
\* before the filter of line 293
atLoop(enemies, timer) ==
    IF timer + 1 >= ENEMY_SPAWN_RATE THEN spawnDue(enemies) ELSE enemies

RECURSIVE hurtLoop(_, _, _, _)
hurtLoop(i, enemies, close, h) ==
    IF i > Len(enemies) THEN h
    ELSE hurtLoop(i + 1, enemies, close,
                  IF ~enemies[i].dead /\ i \in close THEN hurt(h) ELSE h)

\* g_playerHealth after updateEnemies(camera)
playerHealthAfter(enemies, timer, h, close) ==
    hurtLoop(1, atLoop(enemies, timer), close, h)

(***************************************************************************)
(* Start-up and the frame loop it starts (main.js).  No input event is     *)
(* delivered; in every frame every live enemy is within ENEMY_DAMAGE_DIST  *)
(* of the player, the runs that take g_playerHealth down to 0.             *)
(***************************************************************************)
MainStmt == IF mainpc \in 1..Len(mainBody) THEN mainBody[mainpc] ELSE "returned"

\* the state of the page when window.onload calls main.  (camera is
\* assigned at line 115; nothing reads it before.)
InitBoot ==
    /\ camera = NewCamera
    /\ g_keys = {}
    /\ g_bullets = <<>>
    /\ g_shootCooldown = 0
    /\ g_enemies = <<>>
    /\ g_enemySpawnTimer = 0
    /\ g_score = 0
    /\ pxz = Unread
    /\ pc = 0 /\ frames = 0 /\ events = 0
    /\ mainpc = 1
    /\ glProgram = "unset"
    /\ g_sheepProgram = "unset"
    /\ g_texLoaded = 0
    /\ pending = 0
    /\ listening = FALSE
    /\ g_playerHealth = FullHealth
    /\ batch = NewBatch
    /\ glBuffers = {} /\ glCreated = 0 /\ glDeleted = 0 /\ glDraws = <<>>
    /\ _walkActive = FALSE /\ walkPlays = 0 /\ walkPauses = 0
    /\ _moving = FALSE
    /\ g_enemyDist = <<>>

MainGoes(next) ==
    /\ mainpc' = next
    /\ UNCHANGED <<g_keys, pxz, g_enemySpawnTimer, ctlVars, batchVars,
                   soundVars, g_enemyDist>>

\* lines 96-97
MainGetContext ==
    /\ MainStmt = "getWebGLContext"
    /\ \E ok \in BOOLEAN : MainGoes(IF ok THEN mainpc + 1 ELSE MainAborted)
    /\ UNCHANGED <<camera, gunVars, g_enemies, g_score, g_playerHealth,
                   glProgram, g_sheepProgram, g_texLoaded, pending, listening>>

\* lines 100-103, and on success lines 105-135 (new Camera() at line 115)
MainInitShaders ==
    /\ MainStmt = "initShaders"
    /\ \E ok \in BOOLEAN :
         /\ glProgram' = IF ok THEN "program" ELSE "null"
         /\ MainGoes(IF ok THEN mainpc + 1 ELSE MainAborted)
    /\ camera' = NewCamera
    /\ UNCHANGED <<gunVars, g_enemies, g_score, g_playerHealth,
                   g_sheepProgram, g_texLoaded, pending, listening>>

\* line 138; initSheepShader, lines 68-88 of sheep.js: on failure it logs
\* and returns to main
MainInitSheepShader ==
    /\ MainStmt = "initSheepShader"
    /\ \E ok \in BOOLEAN : g_sheepProgram' = IF ok THEN "program" ELSE "null"
    /\ MainGoes(mainpc + 1)
    /\ UNCHANGED <<camera, gunVars, g_enemies, g_score, g_playerHealth,
                   glProgram, g_texLoaded, pending, listening>>

\* line 139
MainInitEnemies ==
    /\ MainStmt = "initEnemies"
    /\ g_enemies' = initEnemies.enemies
    /\ g_score' = initEnemies.score
    /\ g_playerHealth' = FullHealth
    /\ MainGoes(mainpc + 1)
    /\ UNCHANGED <<camera, gunVars, glProgram, g_sheepProgram, g_texLoaded,
                   pending, listening>>

\* line 140
MainInitGun ==
    /\ MainStmt = "initGun"
    /\ g_bullets' = initGun.bullets
    /\ g_shootCooldown' = initGun.cooldown
    /\ MainGoes(mainpc + 1)
    /\ UNCHANGED <<camera, g_enemies, g_score, g_playerHealth, glProgram,
                   g_sheepProgram, g_texLoaded, pending, listening>>

\* _uploadTex, lines 249-253: g_texLoaded and the frame callbacks pending
uploadTex(loaded, pend) ==
    [ loaded  |-> loaded + 1,
      pending |-> IF loaded + 1 = NUM_TEXTURES THEN pend + 1 ELSE pend ]

MainUploadTex ==
    /\ MainStmt = "_uploadTex"
    /\ LET r == uploadTex(g_texLoaded, pending)
       IN  /\ g_texLoaded' = r.loaded
           /\ pending' = r.pending
    /\ MainGoes(mainpc + 1)
    /\ UNCHANGED <<camera, gunVars, g_enemies, g_score, g_playerHealth,
                   glProgram, g_sheepProgram, listening>>

\* line 153
MainSetupInput ==
    /\ MainStmt = "_setupInput"
    /\ listening' = TRUE
    /\ MainGoes(mainpc + 1)
    /\ UNCHANGED <<camera, gunVars, g_enemies, g_score, g_playerHealth,
                   glProgram, g_sheepProgram, g_texLoaded, pending>>

MainStep ==
    \/ MainGetContext
    \/ MainInitShaders
    \/ MainInitSheepShader
    \/ MainInitEnemies
    \/ MainInitGun
    \/ MainUploadTex
    \/ MainSetupInput

\* the browser runs a pending frame callback; it does so only when no
\* other callback (main) is running
BootTickBegin ==
    /\ MainStmt = "returned"
    /\ pc = 0
    /\ pending > 0
    /\ pending' = pending - 1
    /\ pc' = 1
    /\ UNCHANGED <<camera, g_keys, gunVars, enemyVars, frames, events,
                   mainpc, glProgram, g_sheepProgram, g_texLoaded, listening,
                   g_playerHealth, batchVars, soundVars, g_enemyDist>>

requestFrameNever(pend) == pend

\* line 367: requestAnimationFrame(tick)
requestFrame(pend) == pend + 1

BootTickStep ==
    \/ TickHandleKeys /\ UNCHANGED extVars
    \/ TickApplyGravity /\ UNCHANGED extVars
    \/ TickUpdateBullets /\ UNCHANGED extVars
    \/ /\ TickUpdateEnemies
       /\ g_playerHealth' =
            playerHealthAfter(g_enemies, g_enemySpawnTimer, g_playerHealth,
                              1..Len(atLoop(g_enemies, g_enemySpawnTimer)))
       /\ UNCHANGED <<bootVars, batchVars, soundVars, g_enemyDist>>
    \/ TickCheckBulletHits /\ UNCHANGED extVars
    \/ TickRenderScene /\ UNCHANGED extVars
    \/ /\ TickRequestFrame
       /\ pending' = requestFrame(pending)
       /\ UNCHANGED <<mainpc, glProgram, g_sheepProgram, g_texLoaded,
                      listening, g_playerHealth, batchVars, soundVars,
                      g_enemyDist>>

NextBoot ==
    \/ MainStep
    \/ BootTickBegin
    \/ BootTickStep

SpecBoot == InitBoot /\ [][NextBoot]_vars

\* The browser runs main to its end, runs a pending frame callback, and
\* runs the callback to its end.
SpecBootFair ==
    /\ SpecBoot
    /\ WF_vars(MainStep)
    /\ WF_vars(BootTickBegin)
    /\ WF_vars(BootTickStep)

\* C13: when the world program or the sheep program has failed to build,
\* the frame loop is never started: no frame callback is requested and
\* none runs.
C13_ShaderFailureAborts ==
    (glProgram = "null" \/ g_sheepProgram = "null") => (pending = 0 /\ pc = 0)

\* C13, the state that refutes it: the sheep program has failed to build
\* and a frame of the loop is rendering, after frames in which enemies
\* (which are not drawn) have taken health from the player.
C13_Witness ==
    /\ g_sheepProgram = "null"
    /\ glProgram = "program"
    /\ Stmt = "renderScene"
    /\ g_playerHealth < FullHealth

\* C17: a frame callback is requested in two places only: by the
\* _uploadTex call that brings g_texLoaded to NUM_TEXTURES, and by each
\* tick at its end; each request is for one callback.  So before the last
\* texture is uploaded nothing is pending and no tick runs, and from then
\* on exactly one callback is pending or running at any time.  Every
\* pending callback is run: the loop goes on for ever, with
\* g_playerHealth at 0 as well.
C17_LoopRescheduled ==
    /\ [][ /\ pending' > pending
              => /\ pending' = pending + 1
                 /\ \/ MainStmt = "_uploadTex" /\ g_texLoaded' = NUM_TEXTURES
                    \/ Stmt = "requestAnimationFrame"
           /\ pending' < pending
              => pending' = pending - 1 /\ pc = 0 /\ pc' = 1
           /\ Stmt = "requestAnimationFrame" => pending' = pending + 1
           /\ g_texLoaded' >= g_texLoaded ]_vars
    /\ [](g_texLoaded < NUM_TEXTURES => pending = 0 /\ pc = 0)
    /\ [](g_texLoaded = NUM_TEXTURES
            => pending + (IF pc > 0 THEN 1 ELSE 0) = 1)
    /\ (g_texLoaded = NUM_TEXTURES) ~> (Stmt = "handleKeys")
    /\ (g_texLoaded = NUM_TEXTURES /\ g_playerHealth = 0)
          ~> (Stmt = "requestAnimationFrame")

\* C17 witness: a tick is about to request the next one with
\* g_playerHealth at 0 and the enemy list full.
C17_Witness ==
    /\ Stmt = "requestAnimationFrame"
    /\ pending = 0
    /\ g_playerHealth = 0
    /\ Len(g_enemies) = ENEMY_MAX

(***************************************************************************)
(* One CubeBatch (cube.js, lines 94-153) and the GL context it uses.  A    *)
(* buffer is known by its number (0: null); gl is the record of the live   *)
(* buffers and of the createBuffer and deleteBuffer calls made.  A list of *)
(* cube descriptors enters by its length n.                                *)
(***************************************************************************)
VERTS_PER_CUBE == 36

TexNums == {0, 1}

GL(buffers, created, deleted) ==
    [buffers |-> buffers, created |-> created, deleted |-> deleted]

buildLeak(b, gl, n, texNum) ==
    LET new == gl.created + 1
    IN  [ batch |-> [vbo |-> new, vertCount |-> n * VERTS_PER_CUBE,
                     texNum |-> texNum],
          gl    |-> GL(gl.buffers \cup {new}, new, gl.deleted) ]

\* build(gl, cubeDescs, texNum), lines 102-133: the batch and gl after it
build(b, gl, n, texNum) ==
    LET freed == IF b.vbo # 0
                 THEN GL(gl.buffers \ {b.vbo}, gl.created, gl.deleted + 1)
                 ELSE gl
        new   == freed.created + 1
    IN  [ batch |-> [vbo |-> new, vertCount |-> n * VERTS_PER_CUBE,
                     texNum |-> texNum],
          gl    |-> GL(freed.buffers \cup {new}, new, freed.deleted) ]

drawEvenEmpty(b) ==
    IF b.vbo = 0 THEN <<>>
    ELSE << [vbo |-> b.vbo, count |-> b.vertCount, texNum |-> b.texNum,
             model |-> "identity"] >>

\* draw(gl, locs), lines 136-153: the drawArrays calls it makes, each with
\* the buffer bound, the vertex count, the texture and the model matrix
draw(b) ==
    IF b.vbo = 0 \/ b.vertCount = 0 THEN <<>>
    ELSE << [vbo |-> b.vbo, count |-> b.vertCount, texNum |-> b.texNum,
             model |-> "identity"] >>

BatchRest == UNCHANGED <<camera, g_keys, gunVars, enemyVars, pc, frames,
                         bootVars, g_playerHealth, soundVars,
                         g_enemyDist>>

BatchBuild ==
    /\ glCreated < MaxBuilds
    /\ \E n \in 0..MaxCubes, t \in TexNums :
         LET r == build(batch, GL(glBuffers, glCreated, glDeleted), n, t)
         IN  /\ batch' = r.batch
             /\ glBuffers' = r.gl.buffers
             /\ glCreated' = r.gl.created
             /\ glDeleted' = r.gl.deleted
    /\ UNCHANGED <<glDraws, events>>
    /\ BatchRest

\* events counts the draw() calls
BatchDraw ==
    /\ events < MaxBatchDraws
    /\ events' = events + 1
    /\ glDraws' = draw(batch)
    /\ UNCHANGED <<batch, glBuffers, glCreated, glDeleted>>
    /\ BatchRest

NextBatch ==
    \/ BatchBuild
    \/ BatchDraw

SpecBatch == Init /\ [][NextBatch]_vars

\* C14: on any batch the program can have, build with a list of n > 0
\* cubes and texture t followed by draw() makes exactly one drawArrays
\* call, of 36 * n vertices, with texture t, the identity model matrix and
\* the buffer just built; build with the empty list followed by draw()
\* makes none, and draw() on a batch never built makes none.  The calls
\* of the latest draw() are those of the batch as it stands.
C14_OneDrawCall ==
    /\ draw(NewBatch) = <<>>
    /\ \A n \in 0..MaxCubes, t \in TexNums :
         LET r == build(batch, GL(glBuffers, glCreated, glDeleted), n, t)
             d == draw(r.batch)
         IN  IF n = 0 THEN d = <<>>
             ELSE /\ Len(d) = 1
                  /\ d[1].count = 36 * n
                  /\ d[1].texNum = t
                  /\ d[1].model = "identity"
                  /\ d[1].vbo = r.batch.vbo
                  /\ d[1].vbo \in r.gl.buffers
    /\ Len(glDraws) <= 1
    /\ \A i \in 1..Len(glDraws) : glDraws[i].count > 0

\* C14 witness: the batch was built with MaxCubes cubes and drawn, in one
\* call of 36 * MaxCubes vertices, and has been rebuilt with the empty
\* list since.
C14_Witness ==
    /\ Len(glDraws) = 1
    /\ glDraws[1].count = 36 * MaxCubes
    /\ batch.vertCount = 0
    /\ batch.vbo # 0

\* C15: once the batch has been built, whatever the lists: the buffers
\* created are one more than the buffers deleted, and the one live buffer
\* is the batch's; before the first build there is none.
C15_OneLiveBuffer ==
    IF glCreated = 0
    THEN glBuffers = {} /\ batch.vbo = 0 /\ glDeleted = 0
    ELSE /\ glCreated - glDeleted = 1
         /\ glBuffers = {batch.vbo}
         /\ batch.vbo # 0

\* C15 witness: MaxBuilds builds have been made, the last one with the
\* empty list.
C15_Witness ==
    /\ glCreated = MaxBuilds
    /\ glDeleted = MaxBuilds - 1
    /\ batch.vertCount = 0

(***************************************************************************)
(* Player health during play: updateEnemies(camera) with none, the first  *)
(* or all of the enemies within ENEMY_DAMAGE_DIST of the player, and       *)
(* checkBulletHits with one bullet, in any order.  frames counts the       *)
(* updateEnemies calls.                                                    *)
(***************************************************************************)
\* the enemies in range in one call: none, the first of the list, or all
InRange(enemies) == { {}, {i \in 1..Len(enemies) : i = 1}, 1..Len(enemies) }

HpUpdateEnemies ==
    /\ frames < MaxHealthUpdates
    /\ frames' = frames + 1
    /\ LET r == updateEnemies(g_enemies, g_enemySpawnTimer, camera)
       IN  /\ g_enemies' = r.enemies
           /\ g_enemySpawnTimer' = r.timer
           /\ pxz' = r.pxz
    /\ \E close \in InRange(atLoop(g_enemies, g_enemySpawnTimer)) :
         g_playerHealth' =
           playerHealthAfter(g_enemies, g_enemySpawnTimer, g_playerHealth,
                             close)
    /\ UNCHANGED <<camera, g_keys, gunVars, g_score, pc, events, bootVars,
                   batchVars, soundVars, g_enemyDist>>

\* checkBulletHits with one bullet, in range of the first enemy or of none
HpCheckBulletHits ==
    /\ g_score < MaxHealthKills * KILL_SCORE
    /\ \E near \in {{}, {<<1, 1>>}} :
         LET r == checkBulletHits(<<NewBullet(camera)>>, g_enemies, g_score,
                                  near)
         IN  /\ g_enemies' = r.enemies
             /\ g_score' = r.score
    /\ UNCHANGED <<camera, g_keys, gunVars, g_enemySpawnTimer, pxz, ctlVars,
                   extVars>>

NextHealth ==
    \/ HpUpdateEnemies
    \/ HpCheckBulletHits

SpecHealth == Init /\ [][NextHealth]_vars

\* C16: g_playerHealth starts at 100, is within [0, 100] in every state
\* and never goes up.  An updateEnemies call takes 0.15 from it for each
\* enemy in range that is not dead (the enemy spawned in the call
\* included), be it none, the first or all of them that are in range, and
\* stops at 0; a call of checkBulletHits leaves it alone.
C16_HealthDrains ==
    /\ [](g_playerHealth \in 0..FullHealth)
    /\ [](frames = 0 => g_playerHealth = 10000)
    /\ [][g_playerHealth' <= g_playerHealth]_vars
    /\ [][frames' = frames
            => g_playerHealth' = g_playerHealth]_vars
    /\ [](LET es == atLoop(g_enemies, g_enemySpawnTimer)
          IN  \A close \in InRange(es) :
                LET k    == Cardinality({i \in close : ~es[i].dead})
                    left == g_playerHealth - 15 * k
                IN  playerHealthAfter(g_enemies, g_enemySpawnTimer,
                                      g_playerHealth, close)
                      = IF left < 0 THEN 0 ELSE left)

\* C16 witness: the player's health has come down to 0 in a run in which
\* an enemy was killed.
C16_Witness ==
    /\ g_playerHealth = 0
    /\ g_score = KILL_SCORE

(***************************************************************************)
(* Removal of bullets, in the frame driver with the long frame budget      *)
(* (SpecLife).                                                             *)
(***************************************************************************)
\* the health all the enemies of a list have between them
healthOf(enemies) ==
    SumTo([e \in 1..Len(enemies) |-> enemies[e].health], Len(enemies))

\* C18: an updateBullets call leaves every bullet with 0 < life <=
\* BULLET_LIFE, drops exactly the bullets it found with life 1 (their life
\* reaches 0 in that call) and keeps the others in order; a checkBulletHits
\* call drops one bullet for each health point the enemies lose in it and
\* returns the others as they were; every other step of the program keeps
\* all the bullets there are (a shot appends one).
C18_BulletRemoval ==
    [][ /\ Stmt = "updateBullets"
             => /\ \A i \in 1..Len(g_bullets') :
                     /\ 0 < g_bullets'[i].life
                     /\ g_bullets'[i].life <= BULLET_LIFE
                /\ Len(g_bullets) - Len(g_bullets')
                     = Cardinality({i \in 1..Len(g_bullets) :
                                      g_bullets[i].life = 1})
                /\ g_bullets'
                     = [i \in 1..Len(g_bullets') |->
                          stepBullet(SelectSeq(g_bullets,
                                               LAMBDA b : b.life # 1)[i])]
        /\ Stmt = "checkBulletHits"
             => /\ Len(g_bullets) - Len(g_bullets')
                     = healthOf(g_enemies) - healthOf(g_enemies')
                /\ \A i \in 1..Len(g_bullets') :
                     \E j \in i..Len(g_bullets) : g_bullets'[i] = g_bullets[j]
        /\ Stmt \notin {"updateBullets", "checkBulletHits"}
             => /\ Len(g_bullets') >= Len(g_bullets)
                /\ SubSeq(g_bullets', 1, Len(g_bullets)) = g_bullets ]_vars

\* C18 witness: the bullet fired by a mousedown was removed by the
\* checkBulletHits call of a frame, long before its life ran out, and the
\* enemy it hit has lost one health point.
C18_Witness ==
    /\ Stmt = "renderScene"
    /\ events = 1
    /\ frames < BULLET_LIFE
    /\ g_bullets = <<>>
    /\ Len(g_enemies) = 1
    /\ g_enemies[1].health = ENEMY_HEALTH - 1

(***************************************************************************)
(* The floor, for the Camera alone (SpecCamera).  camera.eye[2] is the     *)
(* program's eye[1], the height.                                           *)
(***************************************************************************)
\* C19: in every state the Camera methods reach the eye is at groundY or
\* above, and a grounded camera stands at groundY exactly with velY = 0.
\* applyGravity leaves a grounded camera as it is; on an airborne one it
\* takes gravity from velY and adds velY to the height, and when that
\* height is groundY or less the same call puts the eye at groundY, velY
\* at 0 and grounded at true.
C19_AboveGround ==
    /\ [](camera.eye[2] >= groundY)
    /\ [](camera.grounded => camera.eye[2] = groundY /\ camera.velY = 0)
    /\ [](camera.grounded => applyGravity(camera) = camera)
    /\ [](~camera.grounded
            => LET v     == camera.velY - gravity
                   y     == camera.eye[2] + v
                   after == applyGravity(camera)
               IN  /\ after.eye[1] = camera.eye[1]
                   /\ after.eye[3] = camera.eye[3]
                   /\ y <= groundY
                        => /\ after.grounded
                           /\ after.eye[2] = groundY
                           /\ after.velY = 0
                   /\ y > groundY
                        => /\ ~after.grounded
                           /\ after.eye[2] = y
                           /\ after.velY = v)
    /\ [][camera'.grounded /\ ~camera.grounded
            => camera' = applyGravity(camera)]_vars

\* C19 witness: the camera is in the air, falling, and the applyGravity
\* call to come brings it to the floor.
C19_Witness ==
    /\ ~camera.grounded
    /\ camera.velY < 0
    /\ camera.eye[2] + camera.velY - gravity <= groundY
    /\ applyGravity(camera).grounded

(***************************************************************************)
(* The walk loop (sound.js).  tick calls tickWalkSound once in a frame,    *)
(* with  _moving && camera.grounded  (main.js line 359); here it is called *)
(* with either value, up to MaxWalkCalls times (counted in events).        *)
(* WalkSound tells whether _sfx['walk'] is there: initSounds, which main   *)
(* calls before any frame, puts it there.  The sound is the flag           *)
(* _walkActive and the number of play() and pause() calls made on the      *)
(* walk Audio element.                                                     *)
(***************************************************************************)
WalkSound == TRUE

Sound(active, plays, pauses) ==
    [active |-> active, plays |-> plays, pauses |-> pauses]

tickWalkSoundEveryCall(walk, snd, moving) ==
    IF ~walk THEN snd
    ELSE IF moving THEN Sound(TRUE, snd.plays + 1, snd.pauses)
    ELSE IF snd.active THEN Sound(FALSE, snd.plays, snd.pauses + 1)
    ELSE snd

\* sound.js lines 45-57
tickWalkSound(walk, snd, moving) ==
    IF ~walk THEN snd
    ELSE IF moving /\ ~snd.active
         THEN Sound(TRUE, snd.plays + 1, snd.pauses)
    ELSE IF ~moving /\ snd.active
         THEN Sound(FALSE, snd.plays, snd.pauses + 1)
    ELSE snd

WalkTick ==
    /\ events < MaxWalkCalls
    /\ events' = events + 1
    /\ \E moving \in BOOLEAN :
         LET r == tickWalkSound(WalkSound,
                                Sound(_walkActive, walkPlays, walkPauses),
                                moving)
         IN  /\ _walkActive' = r.active
             /\ walkPlays' = r.plays
             /\ walkPauses' = r.pauses
             /\ _moving' = moving
    /\ UNCHANGED <<camera, g_keys, gunVars, enemyVars, pc, frames, bootVars,
                   g_playerHealth, batchVars, g_enemyDist>>

NextSound == WalkTick

SpecSound == Init /\ [][NextSound]_vars

\* C20: once tickWalkSound has been called, _walkActive is the argument of
\* the latest call.  A call makes one play() when it is told moving while
\* the loop is not active and none otherwise, one pause() when it is told
\* not moving while the loop is active and none otherwise, and a call with
\* the level the loop is already at changes nothing of the sound; so the
\* play() calls are one ahead of the pause() calls while the loop is active
\* and level with them while it is not.
C20_WalkLevel ==
    /\ [](events > 0 => _walkActive = _moving)
    /\ [](walkPlays - walkPauses = IF _walkActive THEN 1 ELSE 0)
    /\ [][ /\ walkPlays' - walkPlays
                = IF _moving' /\ ~_walkActive THEN 1 ELSE 0
           /\ walkPauses' - walkPauses
                = IF ~_moving' /\ _walkActive THEN 1 ELSE 0
           /\ _moving' = _walkActive
                => <<_walkActive', walkPlays', walkPauses'>>
                     = <<_walkActive, walkPlays, walkPauses>> ]_vars

\* C20 witness: the loop is playing for the second time after more calls
\* than changes of level.
C20_Witness ==
    /\ _walkActive
    /\ walkPlays = 2
    /\ walkPauses = 1
    /\ events > 5

(***************************************************************************)
(* The spawn timer: the first MaxSpawnCalls updateEnemies calls (counted   *)
(* in frames), time enough for the list to fill up, with checkBulletHits   *)
(* calls of one bullet in between, in range of the first enemy or of none, *)
(* until MaxSpawnKills enemies are killed.                                 *)
(***************************************************************************)
SpawnUpdateEnemies ==
    /\ frames < MaxSpawnCalls
    /\ frames' = frames + 1
    /\ EnUpdateEnemies
    /\ UNCHANGED <<pc, events>>

SpawnCheckBulletHits ==
    /\ g_score < MaxSpawnKills * KILL_SCORE
    /\ \E near \in {{}, {<<1, 1>>}} :
         LET r == checkBulletHits(<<NewBullet(camera)>>, g_enemies, g_score,
                                  near)
         IN  /\ g_enemies' = r.enemies
             /\ g_score' = r.score
    /\ UNCHANGED <<camera, g_keys, gunVars, g_enemySpawnTimer, pxz, ctlVars,
                   extVars>>

NextSpawn ==
    \/ SpawnUpdateEnemies
    \/ SpawnCheckBulletHits

SpecSpawn == Init /\ [][NextSpawn]_vars

\* C21: g_enemySpawnTimer is within 0..179 in every state and after the
\* n-th updateEnemies call it is n mod 180: it comes back to 0, and the
\* spawn is tried, in every 180th call and in no other.  A call that does
\* not try leaves the list to the dead filter alone; a call that tries with
\* fewer than ENEMY_MAX entries in the list, dead ones counted, appends one
\* enemy before the filter; a call that tries with ENEMY_MAX entries
\* appends none and resets the timer all the same, so the next try is 180
\* calls later.  checkBulletHits leaves the timer alone.
C21_SpawnTimer ==
    /\ [](g_enemySpawnTimer \in 0..(ENEMY_SPAWN_RATE - 1))
    /\ [](g_enemySpawnTimer = frames % ENEMY_SPAWN_RATE)
    /\ [][ frames' = frames => g_enemySpawnTimer' = g_enemySpawnTimer ]_vars
    /\ [][ frames' # frames
             => LET tried == (frames' % ENEMY_SPAWN_RATE = 0)
                IN  /\ tried <=> (g_enemySpawnTimer' = 0)
                    /\ ~tried => g_enemies' = filterDead(g_enemies)
                    /\ tried /\ Len(g_enemies) < ENEMY_MAX
                         => g_enemies'
                              = filterDead(Append(g_enemies, NewEnemy))
                    /\ tried /\ Len(g_enemies) >= ENEMY_MAX
                         => g_enemies' = filterDead(g_enemies) ]_vars

\* C21 witness: the 20th try, in call 3600, found 20 entries in the list,
\* one of them dead, and was skipped: the filter of that call has left 19
\* and the timer is back at 0.
C21_Witness ==
    /\ frames = ENEMY_MAX * ENEMY_SPAWN_RATE
    /\ g_enemySpawnTimer = 0
    /\ Len(g_enemies) = ENEMY_MAX - 1
    /\ g_score = KILL_SCORE

(***************************************************************************)
(* The score: initEnemies, updateEnemies and checkBulletHits in any order, *)
(* as in SpecHits, with events counting the dead flags set since the       *)
(* latest initEnemies: a checkBulletHits call adds the number of enemies   *)
(* that were not dead before it and are dead after it (the call leaves     *)
(* every enemy at its place in the list).                                  *)
(***************************************************************************)
deadSet(before, after) ==
    Cardinality({i \in 1..Len(before) : ~before[i].dead /\ after[i].dead})

ScoreInitEnemies ==
    /\ g_enemies' = initEnemies.enemies
    /\ g_score' = initEnemies.score
    /\ events' = 0
    /\ UNCHANGED <<camera, g_keys, gunVars, g_enemySpawnTimer, pxz, pc,
                   frames, extVars>>

ScoreUpdateEnemies ==
    /\ frames < MaxUpdates
    /\ frames' = frames + 1
    /\ EnUpdateEnemies
    /\ UNCHANGED <<pc, events>>

ScoreCheckBulletHits ==
    /\ g_score < MaxKills * KILL_SCORE
    /\ \E n \in 0..MaxBullets :
         \E near \in Pairs(n, Targets(MaxTargets)) :
           LET r == checkBulletHits([i \in 1..n |-> NewBullet(camera)],
                                    g_enemies, g_score, near)
           IN  /\ g_enemies' = r.enemies
               /\ g_score' = r.score
               /\ events' = events + deadSet(g_enemies, r.enemies)
    /\ UNCHANGED <<camera, g_keys, gunVars, g_enemySpawnTimer, pxz, pc,
                   frames, extVars>>

NextScore ==
    \/ ScoreInitEnemies
    \/ ScoreUpdateEnemies
    \/ ScoreCheckBulletHits

SpecScore == Init /\ [][NextScore]_vars

\* C22: in every state g_score is 10 times the number of dead flags set
\* since the latest initEnemies, and so a multiple of 10 that is not
\* negative.  It goes down in no step but an initEnemies call, which puts
\* it at 0, and up in no step but a checkBulletHits call that has set the
\* dead flag of an enemy: updateEnemies leaves it as it is.
C22_ScoreCountsKills ==
    /\ [](g_score = KILL_SCORE * events)
    /\ [](g_score >= 0 /\ g_score % KILL_SCORE = 0)
    /\ [][ g_score' < g_score
             => g_score' = 0 /\ g_enemies' = <<NewEnemy>> ]_vars
    /\ [][ g_score' > g_score
             => /\ frames' = frames
                /\ g_enemySpawnTimer' = g_enemySpawnTimer
                /\ Len(g_enemies') = Len(g_enemies)
                /\ g_score' - g_score
                     = KILL_SCORE * deadSet(g_enemies, g_enemies') ]_vars
    /\ [][ frames' # frames => g_score' = g_score ]_vars

\* C22 witness: one checkBulletHits call has killed two enemies and a
\* later updateEnemies call has removed them from the list.
C22_Witness ==
    /\ g_score = 2 * KILL_SCORE
    /\ events = 2
    /\ g_enemies = <<>>

(***************************************************************************)
(* The chase: updateEnemies called again and again, as tick calls it in    *)
(* every frame, with the camera standing where main put it and no bullet   *)
(* fired (checkBulletHits then changes nothing).  An enemy walks straight  *)
(* towards the camera, so its distance after the step of line 285 is the   *)
(* distance before less ENEMY_SPEED, or ENEMY_SPEED less the distance when *)
(* it steps past the camera.  The damage test of line 288 reads the        *)
(* distance computed before the step.  A spawned enemy is at one of the    *)
(* distances of SpawnDist.  frames counts the calls, up to MaxChaseCalls.  *)
(***************************************************************************)
SpawnDist == {EdgeDist, EdgeDistOdd}

stepTowardsHalf(d) ==
    IF d > StandStill THEN Abs(d - ENEMY_SPEED \div 2) ELSE d

\* line 285
stepTowards(d) ==
    IF d > StandStill THEN Abs(d - ENEMY_SPEED) ELSE d

\* line 288: the enemies the damage test is true of
closeTo(dists) == {i \in 1..Len(dists) : dists[i] < ENEMY_DAMAGE_DIST}

\* the distances of the enemies the filter of line 293 keeps
liveDist(enemies, dists) ==
    LET idx == SelectSeq([i \in 1..Len(enemies) |-> i],
                         LAMBDA i : ~enemies[i].dead)
    IN  [k \in 1..Len(idx) |-> dists[idx[k]]]

ChaseUpdateEnemies ==
    /\ frames < MaxChaseCalls
    /\ frames' = frames + 1
    /\ \E d \in SpawnDist :
         LET r  == updateEnemies(g_enemies, g_enemySpawnTimer, camera)
             es == atLoop(g_enemies, g_enemySpawnTimer)
             ds == IF Len(es) > Len(g_enemies) THEN Append(g_enemyDist, d)
                   ELSE g_enemyDist
             mv == [i \in 1..Len(ds) |->
                      IF es[i].dead THEN ds[i] ELSE stepTowards(ds[i])]
         IN  /\ g_enemies' = r.enemies
             /\ g_enemySpawnTimer' = r.timer
             /\ pxz' = r.pxz
             /\ g_playerHealth' =
                  playerHealthAfter(g_enemies, g_enemySpawnTimer,
                                    g_playerHealth, closeTo(ds))
             /\ g_enemyDist' = liveDist(es, mv)
    /\ UNCHANGED <<camera, g_keys, gunVars, g_score, pc, events, bootVars,
                   batchVars, soundVars>>

NextChase == ChaseUpdateEnemies

SpecChase == Init /\ [][NextChase]_vars

\* tick calls updateEnemies in every frame (line 362) and requests the
\* next frame unconditionally (line 367)
SpecChaseFair == SpecChase /\ WF_vars(ChaseUpdateEnemies)

\* C23: with the camera standing still and no bullet fired, an
\* updateEnemies call brings every enemy that is ENEMY_DAMAGE_DIST or more
\* away nearer by ENEMY_SPEED exactly and leaves every enemy that is
\* within ENEMY_DAMAGE_DIST within it; no enemy dies or leaves the list.
\* g_playerHealth comes down to 0 and is 0 from then on.  Nothing stops
\* at 0: the calls go on to the end of the run, and in each of them the
\* spawn timer advances and every enemy farther than 0.01 from the camera
\* takes its step.
C23_EnemiesCloseIn ==
    /\ [][ frames' # frames
             => /\ Len(g_enemyDist') >= Len(g_enemyDist)
                /\ \A i \in 1..Len(g_enemyDist) :
                     /\ ~g_enemies'[i].dead
                     /\ g_enemyDist[i] >= ENEMY_DAMAGE_DIST
                          => g_enemyDist'[i] = g_enemyDist[i] - ENEMY_SPEED
                     /\ g_enemyDist[i] < ENEMY_DAMAGE_DIST
                          => g_enemyDist'[i] < ENEMY_DAMAGE_DIST ]_vars
    /\ <>[](g_playerHealth = 0)
    /\ [][ g_playerHealth = 0 => g_playerHealth' = 0 ]_vars
    /\ (g_playerHealth = 0) ~> (frames = MaxChaseCalls)
    /\ [][ g_playerHealth = 0 /\ frames' # frames
             => /\ g_enemySpawnTimer'
                     = (g_enemySpawnTimer + 1) % ENEMY_SPAWN_RATE
                /\ \A i \in 1..Len(g_enemyDist) :
                     g_enemyDist[i] > StandStill
                       => g_enemyDist'[i] # g_enemyDist[i] ]_vars

\* C23 witness: the player's health is 0, one enemy has stepped past the
\* camera and stands within 0.01 of it, and another one is still on its
\* way, farther off than ENEMY_DAMAGE_DIST.
C23_Witness ==
    /\ g_playerHealth = 0
    /\ \E i \in 1..Len(g_enemyDist) :
         g_enemyDist[i] > 0 /\ g_enemyDist[i] <= StandStill
    /\ \E i \in 1..Len(g_enemyDist) : g_enemyDist[i] >= ENEMY_DAMAGE_DIST

====
